---------------------------- MODULE Spec2Model ----------------------------
(***************************************************************************)
(* Model of the "still here" dead man's switch core: the Device aggregate, *)
(* the in-memory repository with its identity index and time index, the    *)
(* unit of work, the message bus, the command handlers and the expiry      *)
(* poller.                                                                 *)
(*                                                                         *)
(* Python objects are modelled by reference: a Device object is named by   *)
(* its uuid and a generation number (the n-th Device object ever built for *)
(* that uuid), `heap` holds the objects' fields, and the indexes, the seen *)
(* set and the unit-of-work backups hold references.  The opaque payload   *)
(* fields name and last_will are never read by any branch and are left     *)
(* out of the object records.                                              *)
(***************************************************************************)
EXTENDS Integers, Sequences, FiniteSets, TLC

\* ------------------------------------------------------------------ bounds
\* Largest value of the wall clock (seconds since the poller was built).
MaxTime == 3
\* Most events that may be pending on one Device object.
MaxEvents == 1
\* Most keep-alive requests that run step by step beside the poller.
MaxRequests == 1
\* Most Device objects built in all where the repository is driven
\* directly.
MaxObjects == 2

\* The uuids clients use, the ttls they pass, and the generations of Device
\* objects built for one uuid (each uuid is given to one Device object).
UUIDS == {"d1", "d2"}
TTLS == {1, 2}
GENS == {1}

\* ------------------------------------------------------------- python values
None == "None"
NoObj == 0

\* A datetime.now() that gives the epoch whatever the clock.
datetime_epoch(now) == [type |-> "datetime", tzinfo |-> None, ts |-> 0]

\* datetime.now(): a naive datetime object holding the clock's second.
datetime_now(now) == [type |-> "datetime", tzinfo |-> None, ts |-> now]

\* A python int.
PyInt(n) == [type |-> "int", val |-> n]

get_utc_tz_aware_datetime(dt) ==
    IF dt.tzinfo = None THEN [dt EXCEPT !.tzinfo = "UTC"] ELSE dt

\* datetime.timestamp() followed by int(): the datetime's second.
int_timestamp(dt) == dt.ts

\* ------------------------------------------------------------------ Device
\* Device.__init__: fire_at = created_at + ttl.  Adding an int to a
\* datetime object raises TypeError and no object is built.
DeviceInit(uuid, ttl, created_at) ==
    IF created_at.type = "int"
    THEN [exc |-> None,
          obj |-> [uuid |-> uuid, ttl |-> ttl, created_at |-> created_at.val,
                   fire_at |-> created_at.val + ttl,
                   consumer_id |-> None, consumed |-> FALSE,
                   version_number |-> 0, events |-> <<>>]]
    ELSE [exc |-> "TypeError", obj |-> None]

RegisterDeviceEvent(d) ==
    [type |-> "RegisterDeviceEvent", uuid |-> d.uuid, ttl |-> d.ttl, fire_at |-> d.fire_at]
RemoveDeviceEvent(d) ==
    [type |-> "RemoveDeviceEvent", uuid |-> d.uuid]
KeepAliveDeviceEvent(d) ==
    [type |-> "KeepAliveDeviceEvent", uuid |-> d.uuid, fire_at |-> d.fire_at]

generate_event_register_device(d) ==
    [d EXCEPT !.events = Append(@, RegisterDeviceEvent(d))]
generate_event_remove_device(d) ==
    [d EXCEPT !.events = Append(@, RemoveDeviceEvent(d))]
generate_event_keep_alive_device(d) ==
    [d EXCEPT !.events = Append(@, KeepAliveDeviceEvent(d))]

\* A consume that leaves an already consumed device as it is.
consume_once(d, consumer_id) ==
    IF d.consumed THEN d
    ELSE [d EXCEPT !.version_number = @ + 1, !.consumed = TRUE,
                   !.consumer_id = consumer_id]

\* Device.consume: a warning is logged when the device is consumed
\* already; then, in every case, the three assignments.
consume(d, consumer_id) ==
    [d EXCEPT !.version_number = @ + 1, !.consumed = TRUE,
              !.consumer_id = consumer_id]

\* -------------------------------------------------------------- repository
\* A store value s is the record of the shared repository's fields and the
\* object heap: s.heap[u] is the sequence of Device objects built for uuid
\* u, s.by_uuid[u] the generation indexed under u (NoObj: no key u),
\* s.by_fire_at the time index (a function whose domain is the set of its
\* keys), s.seen[u] the generation of the object with uuid u held by the
\* seen set (a python set keeps the element it already holds when an equal
\* one, here one with the same uuid, is added).

EmptyIndex == [ts \in {} |-> {}]

\* dict.get(ts, set())
BucketGet(idx, ts) == IF ts \in DOMAIN idx THEN idx[ts] ELSE {}

\* idx[ts] = members
BucketPut(idx, ts, members) ==
    [k \in (DOMAIN idx) \cup {ts} |-> IF k = ts THEN members ELSE idx[k]]

\* del idx[ts] / idx.pop(ts, None)
BucketDel(idx, ts) == [k \in (DOMAIN idx) \ {ts} |-> idx[k]]

\* defaultdict: idx[ts].add(uuid)
IndexAdd(idx, ts, uuid) == BucketPut(idx, ts, BucketGet(idx, ts) \cup {uuid})

\* A discard that keeps the bucket it has emptied.
IndexDiscard_keeping(idx, ts, uuid) ==
    BucketPut(idx, ts, BucketGet(idx, ts) \ {uuid})

\* defaultdict: idx[ts].discard(uuid); if not idx[ts]: del idx[ts]
IndexDiscard(idx, ts, uuid) ==
    LET rest == BucketGet(idx, ts) \ {uuid}
    IN  IF rest = {} THEN BucketDel(idx, ts) ELSE BucketPut(idx, ts, rest)

Obj(s, u, g) == s.heap[u][g]

\* set.add(device)
SeenAdd(seen, u, g) == IF seen[u] = NoObj THEN [seen EXCEPT ![u] = g] ELSE seen

\* set.update(devices_map.values()), devices_map a function uuid -> generation
SeenUpdate(seen, devices_map) ==
    [u \in DOMAIN seen |->
        IF seen[u] = NoObj /\ devices_map[u] # NoObj THEN devices_map[u] ELSE seen[u]]

\* InMemoryDeviceRepository._get
_get(s, uuid) == s.by_uuid[uuid]

\* AbstractDeviceRepository.get: the store after the call; _get gives the result
get(s, uuid) ==
    IF _get(s, uuid) # NoObj
    THEN [s EXCEPT !.seen = SeenAdd(@, uuid, _get(s, uuid))]
    ELSE s

\* AbstractDeviceRepository.get_all_by_uuid: the store after the call; the
\* result is s.by_uuid itself
get_all_by_uuid(s) == [s EXCEPT !.seen = SeenUpdate(@, s.by_uuid)]

\* InMemoryDeviceRepository._add, for the object (u, g)
_add(s, u, g) ==
    [s EXCEPT !.by_uuid[u] = g,
              !.by_fire_at = IndexAdd(@, Obj(s, u, g).fire_at, u)]

\* AbstractDeviceRepository.add
add(s, u, g) ==
    LET s1 == _add(s, u, g)
    IN  [s1 EXCEPT !.seen = SeenAdd(@, u, g)]


\* A set of uuids as a list, in the order a python set iterates it; no
\* branch of the program depends on that order, one order stands for all.
RECURSIVE SetToSeq(_)
SetToSeq(S) ==
    IF S = {} THEN <<>>
    ELSE LET x == CHOOSE y \in S : TRUE IN <<x>> \o SetToSeq(S \ {x})

\* The inner loop of _get_fire_at_between for one second ts: the objects
\* of the bucket's uuids that _get finds, as references <<uuid, generation>>.
BucketDevices(s, ts) ==
    LET uuids == SetToSeq(BucketGet(s.by_fire_at, ts))
        found == SelectSeq(uuids, LAMBDA u : _get(s, u) # NoObj)
    IN  [i \in 1..Len(found) |-> <<found[i], _get(s, found[i])>>]

\* An iteration that does not pop the bucket.
ScanSecond_without_pop(r, ts) ==
    [s |-> r.s, ret |-> r.ret \o BucketDevices(r.s, ts)]

\* One iteration of the outer loop of _get_fire_at_between: the devices of
\* bucket ts are appended and the bucket is popped.
ScanSecond(r, ts) ==
    [s   |-> [r.s EXCEPT !.by_fire_at = BucketDel(@, ts)],
     ret |-> r.ret \o BucketDevices(r.s, ts)]

\* InMemoryDeviceRepository._get_fire_at_between: for ts in range(start, end + 1)
RECURSIVE ScanRange(_, _, _)
ScanRange(r, ts, end) ==
    IF ts > end THEN r ELSE ScanRange(ScanSecond(r, ts), ts + 1, end)

_get_fire_at_between(s, start, end) ==
    ScanRange([s |-> s, ret |-> <<>>], start, end)

\* seen.update(devices), devices a list of references
RECURSIVE SeenUpdateList(_, _)
SeenUpdateList(seen, devices) ==
    IF devices = <<>> THEN seen
    ELSE SeenUpdateList(SeenAdd(seen, Head(devices)[1], Head(devices)[2]), Tail(devices))

\* AbstractDeviceRepository.get_fire_at_between
get_fire_at_between(s, start, end) ==
    LET r == _get_fire_at_between(s, start, end)
    IN  [s |-> [r.s EXCEPT !.seen = SeenUpdateList(@, r.ret)], ret |-> r.ret]

\* An _update that does not set the attribute.
update_setattr_skipped(s, uuid, fire_at) == s

\* _update, first part: setattr(device, "fire_at", value) on the indexed object
update_setattr(s, uuid, fire_at) ==
    [s EXCEPT !.heap[uuid][_get(s, uuid)].fire_at = fire_at]

\* _update, second part: the uuid leaves the bucket of old_fire_at, and an
\* emptied bucket is deleted
update_unindex(s, uuid, old_fire_at) ==
    [s EXCEPT !.by_fire_at = IndexDiscard(@, old_fire_at, uuid)]

\* _update, third part: the uuid enters the bucket of the new fire_at
update_index(s, uuid, fire_at) ==
    [s EXCEPT !.by_fire_at = IndexAdd(@, fire_at, uuid)]

\* InMemoryDeviceRepository._update(uuid, fire_at=...)
_update(s, uuid, fire_at) ==
    IF _get(s, uuid) = NoObj THEN s
    ELSE LET old_fire_at == Obj(s, uuid, _get(s, uuid)).fire_at
             s1 == update_setattr(s, uuid, fire_at)
         IN  IF fire_at # old_fire_at
             THEN update_index(update_unindex(s1, uuid, old_fire_at), uuid, fire_at)
             ELSE s1

\* An update that indexes the uuid under fire_at even when the store has
\* no device for it.
update_indexing_absent(s, uuid, fire_at) ==
    LET s1 == get(s, uuid)
    IN  IF _get(s, uuid) # NoObj
        THEN LET s2 == _update(s1, uuid, fire_at)
             IN  [s2 EXCEPT !.seen = SeenAdd(@, uuid, _get(s, uuid))]
        ELSE update_index(s1, uuid, fire_at)

\* AbstractDeviceRepository.update(uuid, fire_at=...)
update(s, uuid, fire_at) ==
    LET s1 == get(s, uuid)
    IN  IF _get(s, uuid) # NoObj
        THEN LET s2 == _update(s1, uuid, fire_at)
             IN  [s2 EXCEPT !.seen = SeenAdd(@, uuid, _get(s, uuid))]
        ELSE s1

\* InMemoryDeviceRepository._remove
_remove(s, uuid) ==
    IF _get(s, uuid) = NoObj THEN s
    ELSE [s EXCEPT !.by_uuid[uuid] = NoObj,
                   !.by_fire_at = IndexDiscard(@, Obj(s, uuid, _get(s, uuid)).fire_at, uuid)]

\* AbstractDeviceRepository.remove
remove(s, uuid) ==
    LET s1 == get(s, uuid)
    IN  IF _get(s, uuid) # NoObj
        THEN LET s2 == _remove(s1, uuid)
             IN  [s2 EXCEPT !.seen = SeenAdd(@, uuid, _get(s, uuid))]
        ELSE s1

\* InMemoryDeviceRepository._remove_all
_remove_all(s) ==
    [s EXCEPT !.by_uuid = [u \in UUIDS |-> NoObj], !.by_fire_at = EmptyIndex]

\* AbstractDeviceRepository.remove_all: `devices` aliases by_uuid, which
\* _remove_all has cleared when the final seen.update reads it
remove_all(s) ==
    LET s1 == get_all_by_uuid(s)
    IN  IF \E u \in UUIDS : s.by_uuid[u] # NoObj THEN _remove_all(s1) ELSE s1

\* ------------------------------------------------------------ unit of work
\* A unit of work value w is [backup, devices]: _backup (uuid -> generation)
\* and whether _devices has been bound to the repository.

NoBackup == [u \in UUIDS |-> NoObj]

\* InMemoryDeviceUnitOfWork.__init__
NewUow == [backup |-> NoBackup, devices |-> FALSE]

\* InMemoryDeviceUnitOfWork.__enter__: the backup is a copy of by_uuid
uow_enter(w, s) ==
    [w |-> [backup |-> s.by_uuid, devices |-> TRUE], s |-> get_all_by_uuid(s)]

\* for device in devices: self._repository.add(device)
RECURSIVE AddAll(_, _, _)
AddAll(s, backup, uuids) ==
    IF uuids = <<>> THEN s
    ELSE AddAll(add(s, Head(uuids), backup[Head(uuids)]), backup, Tail(uuids))

\* InMemoryDeviceUnitOfWork.rollback: _backup is never None
rollback(w, s) ==
    AddAll(remove_all(s), w.backup, SetToSeq({u \in UUIDS : w.backup[u] # NoObj}))

\* An __exit__ that does not roll back.
uow_exit_without_rollback(w, s) == s

\* AbstractUnitOfWork.__exit__: rollback, whether or not an exception is
\* passing through
uow_exit(w, s) == rollback(w, s)

\* AbstractUnitOfWork.commit / InMemoryDeviceUnitOfWork._commit
commit(w, s) == s

\* AbstractDeviceUnitOfWork.collect_new_events: the events of every object
\* of the seen set, drained; r is [s, ret]
RECURSIVE Drain(_, _)
Drain(r, uuids) ==
    IF uuids = <<>> THEN r
    ELSE LET u == Head(uuids)
             g == r.s.seen[u]
         IN  Drain([s   |-> [r.s EXCEPT !.heap[u][g].events = <<>>],
                    ret |-> r.ret \o Obj(r.s, u, g).events],
                   Tail(uuids))

\* The `devices` property raises RuntimeError while _devices is None.
collect_new_events(w, s) ==
    IF w.devices
    THEN LET r == Drain([s |-> s, ret |-> <<>>],
                        SetToSeq({u \in UUIDS : s.seen[u] # NoObj}))
         IN  [s |-> r.s, ret |-> r.ret, exc |-> None]
    ELSE [s |-> s, ret |-> <<>>, exc |-> "RuntimeError"]


\* ---------------------------------------------------------------- commands
RegisterDeviceCommand(uuid, ttl) ==
    [type |-> "RegisterDeviceCommand", uuid |-> uuid, ttl |-> ttl]
RemoveDeviceCommand(uuid) == [type |-> "RemoveDeviceCommand", uuid |-> uuid]
KeepAliveDeviceCommand(uuid) == [type |-> "KeepAliveDeviceCommand", uuid |-> uuid]

\* ---------------------------------------------------------------- handlers
\* A handler takes the command, its unit of work w, the store s and the
\* clock, and gives [w, s, exc]: the unit of work and the store when it
\* returns or raises, and the exception raised (None: it returned).

\* A new Device object for uuid u enters the heap as the next generation.
\* created_at is read by nothing after __init__ and is not kept.
HeapAlloc(s, obj) ==
    [s EXCEPT !.heap[obj.uuid] =
        Append(@, [uuid |-> obj.uuid, ttl |-> obj.ttl, fire_at |-> obj.fire_at,
                   consumer_id |-> obj.consumer_id, consumed |-> obj.consumed,
                   version_number |-> obj.version_number,
                   events |-> obj.events])]

\* register_device: created_at is the datetime object itself
register_device(cmd, w, s, now) ==
    LET e  == uow_enter(w, s)
        d  == DeviceInit(cmd.uuid, cmd.ttl,
                         get_utc_tz_aware_datetime(datetime_now(now)))
    IN  IF d.exc # None
        THEN [w |-> e.w, s |-> uow_exit(e.w, e.s), exc |-> d.exc]
        ELSE LET s1 == HeapAlloc(e.s, d.obj)
                 g  == Len(s1.heap[cmd.uuid])
                 s2 == add(s1, cmd.uuid, g)
                 s3 == [s2 EXCEPT !.heap[cmd.uuid][g] =
                                      generate_event_register_device(@)]
                 s4 == commit(e.w, s3)
             IN  [w |-> e.w, s |-> uow_exit(e.w, s4), exc |-> None]

remove_device(cmd, w, s, now) ==
    LET e == uow_enter(w, s)
        g == _get(e.s, cmd.uuid)
        s1 == get(e.s, cmd.uuid)
    IN  IF g = NoObj
        THEN [w |-> e.w, s |-> uow_exit(e.w, s1), exc |-> "NotFoundError"]
        ELSE LET s2 == remove(s1, cmd.uuid)
                 s3 == [s2 EXCEPT !.heap[cmd.uuid][g] =
                                      generate_event_remove_device(@)]
                 s4 == commit(e.w, s3)
             IN  [w |-> e.w, s |-> uow_exit(e.w, s4), exc |-> None]

keep_alive_device(cmd, w, s, now) ==
    LET e == uow_enter(w, s)
        g == _get(e.s, cmd.uuid)
        s1 == get(e.s, cmd.uuid)
    IN  IF g = NoObj
        THEN [w |-> e.w, s |-> uow_exit(e.w, s1), exc |-> "NotFoundError"]
        ELSE LET fire_at == int_timestamp(get_utc_tz_aware_datetime(datetime_now(now)))
                                + Obj(s1, cmd.uuid, g).ttl
                 s2 == update(s1, cmd.uuid, fire_at)
                 s3 == [s2 EXCEPT !.heap[cmd.uuid][g] =
                                      generate_event_keep_alive_device(@)]
                 s4 == commit(e.w, s3)
             IN  [w |-> e.w, s |-> uow_exit(e.w, s4), exc |-> None]

\* The event handlers of event_handlers.py only log: they return. A bus
\* may be built with other handlers: "raising_handler" is one that raises.
EventHandlerRaises(handler) == handler = "raising_handler"

\* -------------------------------------------------------------- bootstrap
EVENT_HANDLERS ==
    [RegisterDeviceEvent  |-> <<"register_device_event">>,
     RemoveDeviceEvent    |-> <<"remove_device_event">>,
     KeepAliveDeviceEvent |-> <<"keep_alive_device_event">>]

COMMAND_HANDLERS ==
    [RegisterDeviceCommand  |-> "register_device",
     ConsumerCommand        |-> "remove_device",
     KeepAliveDeviceCommand |-> "keep_alive_device"]

\* _inject_dependencies: the handler called with the message and the uow
CallHandler(handler, cmd, w, s, now) ==
    CASE handler = "register_device"   -> register_device(cmd, w, s, now)
      [] handler = "remove_device"     -> remove_device(cmd, w, s, now)
      [] handler = "keep_alive_device" -> keep_alive_device(cmd, w, s, now)

\* -------------------------------------------------------------- message bus
\* A bus run b is [w, s, queue, exc, handled]: the bus's unit of work, the
\* store, self.queue, the exception leaving handle (None: none so far) and
\* the list of <<handler, message>> invocations made so far; b.raised is the
\* exception the command handler raised (None: it returned or was not reached).

IsCommand(m) == m.type \in {"RegisterDeviceCommand", "RemoveDeviceCommand",
                            "KeepAliveDeviceCommand", "ConsumerCommand"}
IsEvent(m) == m.type \in {"RegisterDeviceEvent", "RemoveDeviceEvent",
                          "KeepAliveDeviceEvent"}

\* An except clause that logs and does not re-raise.
Swallow(exc) == None

\* The except clause of _handle_command: log and re-raise.
Reraise(exc) == exc

\* A bus that collects the new events and does not queue them.
ExtendQueue_dropping(b, c, exc) ==
    IF c.exc # None
    THEN [b EXCEPT !.exc = exc]
    ELSE [b EXCEPT !.s = c.s]

\* _handle_command and _handle_event: self.queue.extend(c), c the outcome
\* of uow.collect_new_events(); its RuntimeError is raised as exc
ExtendQueue(b, c, exc) ==
    IF c.exc # None
    THEN [b EXCEPT !.exc = exc]
    ELSE [b EXCEPT !.s = c.s, !.queue = @ \o c.ret]

\* _handle_command once the handler has given r
AfterCommandHandler(b, r) ==
    IF r.exc # None
    THEN [b EXCEPT !.w = r.w, !.s = r.s, !.raised = r.exc, !.exc = Reraise(r.exc)]
    ELSE ExtendQueue([b EXCEPT !.w = r.w, !.s = r.s],
                     collect_new_events(r.w, r.s), Reraise("RuntimeError"))

\* A _handle_command that ignores a command it has no handler for.
_handle_command_lenient(bus, b, command, now) ==
    IF command.type \notin DOMAIN bus.command_handlers
    THEN b
    ELSE AfterCommandHandler(
             [b EXCEPT !.handled =
                 Append(@, <<bus.command_handlers[command.type], command>>)],
             CallHandler(bus.command_handlers[command.type], command, b.w, b.s, now))

\* MessageBus._handle_command
_handle_command(bus, b, command, now) ==
    IF command.type \notin DOMAIN bus.command_handlers
    THEN [b EXCEPT !.exc = Reraise("KeyError")]
    ELSE AfterCommandHandler(
             [b EXCEPT !.handled =
                 Append(@, <<bus.command_handlers[command.type], command>>)],
             CallHandler(bus.command_handlers[command.type], command, b.w, b.s, now))

\* A for loop of _handle_event without the try: the handler's exception
\* leaves _handle_event.
EventHandlerStep_raising(b, handler) ==
    IF EventHandlerRaises(handler)
    THEN [b EXCEPT !.exc = "Exception"]
    ELSE ExtendQueue(b, collect_new_events(b.w, b.s), None)

\* One pass of the for loop of _handle_event: an exception of the handler
\* or of the collection is logged and the loop continues
EventHandlerStep(b, handler) ==
    IF EventHandlerRaises(handler)
    THEN b
    ELSE ExtendQueue(b, collect_new_events(b.w, b.s), None)

\* The for loop of _handle_event for the handlers hs[i..]
RECURSIVE EventHandlersFrom(_, _, _, _)
EventHandlersFrom(b, event, hs, i) ==
    IF i > Len(hs) THEN b
    ELSE EventHandlersFrom(
             EventHandlerStep([b EXCEPT !.handled = Append(@, <<hs[i], event>>)],
                              hs[i]),
             event, hs, i + 1)

\* MessageBus._handle_event: the lookup is outside the try
_handle_event(bus, b, event) ==
    IF event.type \notin DOMAIN bus.event_handlers
    THEN [b EXCEPT !.exc = "KeyError"]
    ELSE EventHandlersFrom(b, event, bus.event_handlers[event.type], 1)

\* A loop body that drops what is neither an event nor a command.
HandleMessage_lenient(bus, b, message, now) ==
    IF IsEvent(message) THEN _handle_event(bus, b, message)
    ELSE IF IsCommand(message) THEN _handle_command(bus, b, message, now)
    ELSE b

\* The body of the while loop of MessageBus.handle, the head of the queue
\* popped
HandleMessage(bus, b, message, now) ==
    IF IsEvent(message) THEN _handle_event(bus, b, message)
    ELSE IF IsCommand(message) THEN _handle_command(bus, b, message, now)
    ELSE [b EXCEPT !.exc = "InvalidMessageTypeError"]

RECURSIVE HandleLoop(_, _, _)
HandleLoop(bus, b, now) ==
    IF b.exc # None \/ b.queue = <<>> THEN b
    ELSE HandleLoop(bus,
                    HandleMessage(bus, [b EXCEPT !.queue = Tail(@)], Head(b.queue), now),
                    now)

\* MessageBus.handle(message)
handle(bus, w, s, message, now) ==
    HandleLoop(bus,
               [w |-> w, s |-> s, queue |-> <<message>>, exc |-> None,
                raised |-> None, handled |-> <<>>],
               now)

\* bootstrap.bootstrap: the bus of the application
BootstrapBus ==
    [event_handlers |-> EVENT_HANDLERS, command_handlers |-> COMMAND_HANDLERS]


\* A MessageBus built on other maps than bootstrap's: two handlers for
\* RemoveDeviceEvent and for KeepAliveDeviceEvent, the first of which
\* raises; none for RegisterDeviceEvent; each command bound to its handler.
OtherBus ==
    [event_handlers |->
        [RemoveDeviceEvent    |-> <<"raising_handler", "remove_device_event">>,
         KeepAliveDeviceEvent |-> <<"raising_handler", "keep_alive_device_event">>],
     command_handlers |->
        [RegisterDeviceCommand  |-> "register_device",
         RemoveDeviceCommand    |-> "remove_device",
         KeepAliveDeviceCommand |-> "keep_alive_device"]]

\* ------------------------------------------------------------------ poller
\* The last second datetime can represent (datetime.max, the end of year
\* 9999), on the scale of the model's clock.
DatetimeMax == 9

\* datetime.datetime.fromtimestamp(ts, datetime.UTC) raises ValueError
\* (year out of range) beyond datetime.max.
fromtimestamp_raises(ts) == ts > DatetimeMax

\* The firing loop of check_and_fire over the devices returned: how many
\* are logged before fromtimestamp(device.fire_at) raises (all of them, if
\* it does not).
FiredBeforeFailure(s, devices) ==
    LET failing == {i \in DOMAIN devices :
                       fromtimestamp_raises(Obj(s, devices[i][1], devices[i][2]).fire_at)}
    IN  IF failing = {} THEN Len(devices)
        ELSE (CHOOSE i \in failing : \A j \in failing : i <= j) - 1

\* FirePoller.check_and_fire with _last_poll = last_poll on the store s:
\* the store and _last_poll after the tick and the devices it fired.
\* An exception of the firing loop leaves the `with` block (__exit__ runs)
\* and check_and_fire before `self._last_poll = now`: exc is the exception,
\* fired the devices logged before it.
check_and_fire(last_poll_, s, now) ==
    LET start_time == last_poll_ + 1
        end_time   == now
        e == uow_enter(NewUow, s)
        q == get_fire_at_between(e.s, start_time, end_time)
        n == FiredBeforeFailure(q.s, q.ret)
    IN  [s |-> uow_exit(e.w, q.s), ret |-> q.ret,
         fired |-> SubSeq(q.ret, 1, n),
         exc |-> IF n < Len(q.ret) THEN "ValueError" ELSE None,
         last_poll |-> IF n < Len(q.ret) THEN last_poll_ ELSE now,
         start_time |-> start_time, end_time |-> end_time]

\* ------------------------------------------------------------------- state
VARIABLES
    clock,       \* time.time() / datetime.now(), in seconds
    heap,        \* the Device objects: heap[u][g]
    by_uuid,     \* InMemoryDeviceRepository.by_uuid
    by_fire_at,  \* InMemoryDeviceRepository.by_fire_at
    seen,        \* AbstractDeviceRepository.seen
    last_poll,   \* FirePoller._last_poll
    uow,         \* the unit of work of the request thread's bus
    fired,       \* history: the uuids the poller has fired
    promised,    \* history: the uuid and the deadline (now + ttl) of the last
                 \* RegisterDevice command handled, until a keep-alive or
                 \* remove command for that uuid is handled
    last,        \* history: the last operation and its outcome
    request,     \* the frame of a keep-alive request running step by step
    tick         \* the frame of a poller tick running step by step

vars == <<clock, heap, by_uuid, by_fire_at, seen, last_poll, uow, fired,
          promised, last, request, tick>>

\* The shared repository (bootstrap._device_repository) and the heap.
Store == [heap |-> heap, by_uuid |-> by_uuid, by_fire_at |-> by_fire_at,
          seen |-> seen]

\* An object that neither index, nor the seen set, nor the backup of the
\* request thread's unit of work w refers to is garbage: it is freed.
Freed == [uuid |-> "freed", ttl |-> 0, fire_at |-> 0, consumer_id |-> None,
          consumed |-> FALSE, version_number |-> 0, events |-> <<>>]

Collect(s, w) ==
    [s EXCEPT !.heap =
        [u \in UUIDS |->
            [g \in 1..Len(s.heap[u]) |->
                IF g \in {s.by_uuid[u], s.seen[u], w.backup[u]}
                THEN s.heap[u][g] ELSE Freed]]]

\* The repository and the heap after an operation that leaves the request
\* thread's unit of work as w.
SetStore(s, w) ==
    /\ heap' = Collect(s, w).heap
    /\ by_uuid' = s.by_uuid
    /\ by_fire_at' = s.by_fire_at
    /\ seen' = s.seen

\* The history record of an operation: its name, the uuid it was given,
\* the exception that left it (None: it returned), the command handler the
\* bus invoked (None: none), the exception that handler raised, the list
\* the range query returned, the <<handler, message>> invocations the bus
\* made, the messages left in its queue, the bus ("bootstrap", "other";
\* None: no bus), and the fire_at the uuid's indexed object had when the
\* operation began (0: the uuid was not in the store); for a tick of the
\* poller, window is the <<start_time, end_time>> it queried.
Outcome(op, uuid, exc, handler, raised, ret) ==
    [op |-> op, uuid |-> uuid, exc |-> exc, handler |-> handler,
     raised |-> raised, ret |-> ret, handled |-> <<>>, queue |-> <<>>,
     bus |-> None, window |-> <<>>,
     before |-> IF uuid \in UUIDS /\ by_uuid[uuid] # NoObj
                THEN heap[uuid][by_uuid[uuid]].fire_at ELSE 0]

NoLast == Outcome("init", None, None, None, None, <<>>)

NoPromise == [uuid |-> None, fire_at |-> 0]

\* No keep-alive request is running step by step.
IdleRequest == [pc |-> "idle", uuid |-> None, fire_at |-> 0, old_fire_at |-> 0,
                exc |-> None, todo |-> <<>>, served |-> 0]

\* No poller tick is running step by step.
IdleTick == [pc |-> "idle", now |-> 0, start_time |-> 0, end_time |-> 0,
             ts |-> 0, devices |-> <<>>, backup |-> NoBackup, todo |-> <<>>,
             picked |-> {}]

\* promised, after a keep-alive or remove command for u
Unpromise(u) == IF promised.uuid = u THEN NoPromise ELSE promised

Init ==
    /\ clock = 0
    /\ heap = [u \in UUIDS |-> <<>>]
    /\ by_uuid = [u \in UUIDS |-> NoObj]
    /\ by_fire_at = EmptyIndex
    /\ seen = [u \in UUIDS |-> NoObj]
    /\ last_poll = 0
    /\ uow = NewUow
    /\ fired = {}
    /\ promised = NoPromise
    /\ last = NoLast
    /\ request = IdleRequest
    /\ tick = IdleTick

\* A Device object can still be built for u within the model's bound.
Buildable(u) == Len(heap[u]) < Cardinality(GENS)

\* The object indexed under u can take one more pending event.
EventRoom(u) ==
    by_uuid[u] # NoObj => Len(heap[u][by_uuid[u]].events) < MaxEvents

\* One second passes.
AdvanceClock ==
    /\ clock < MaxTime
    /\ clock' = clock + 1
    /\ UNCHANGED <<heap, by_uuid, by_fire_at, seen, last_poll, uow, fired,
                   promised, last, request, tick>>

\* The history record of bus.handle(message), whose run ended as b.
HandleOutcome(name, message, b) ==
    [Outcome(message.type, message.uuid, b.exc,
             IF b.handled # <<>> /\ IsCommand(b.handled[1][2])
             THEN b.handled[1][1] ELSE None,
             b.raised, <<>>)
        EXCEPT !.handled = b.handled, !.queue = b.queue, !.bus = name]

\* A request: bus.handle(message) on the application's bus.
Dispatch(message) ==
    LET b == handle(BootstrapBus, uow, Store, message, clock)
    IN  /\ SetStore(b.s, b.w)
        /\ uow' = b.w
        /\ last' = HandleOutcome("bootstrap", message, b)
        /\ UNCHANGED <<clock, last_poll, fired, request, tick>>

DispatchRegister(u, ttl) ==
    /\ Buildable(u) \/ DeviceInit(u, ttl, get_utc_tz_aware_datetime(datetime_now(clock))).exc # None
    /\ Dispatch(RegisterDeviceCommand(u, ttl))
    /\ promised' = [uuid |-> u, fire_at |-> clock + ttl]

DispatchRemove(u) ==
    /\ EventRoom(u)
    /\ Dispatch(RemoveDeviceCommand(u))
    /\ promised' = Unpromise(u)

DispatchKeepAlive(u) ==
    /\ EventRoom(u)
    /\ Dispatch(KeepAliveDeviceCommand(u))
    /\ promised' = Unpromise(u)

\* The uuids of a list of object references.
Uuids(ret) == {ret[i][1] : i \in DOMAIN ret}

\* A tick of the poller.
CheckAndFire ==
    LET r == check_and_fire(last_poll, Store, clock)
    IN  /\ SetStore(r.s, uow)
        /\ last_poll' = r.last_poll
        /\ fired' = fired \cup Uuids(r.fired)
        /\ last' = [Outcome("check_and_fire", None, r.exc, None, None, r.ret)
                       EXCEPT !.window = <<r.start_time, r.end_time>>]
        /\ UNCHANGED <<clock, uow, promised, request, tick>>

\* The repository used directly: repository.add(Device(u, ..., ttl, created_at=now))
RepoAdd(u, ttl) ==
    /\ Buildable(u)
    /\ LET s1 == HeapAlloc(Store, DeviceInit(u, ttl, PyInt(clock)).obj)
       IN  SetStore(add(s1, u, Len(s1.heap[u])), uow)
    /\ last' = Outcome("add", u, None, None, None, <<>>)
    /\ UNCHANGED <<clock, last_poll, uow, fired, promised, request, tick>>

\* A unit-of-work scope used directly:
\*   with uow: uow.devices.add(Device(u, ..., ttl, created_at=now))
\*             [raise]; uow.commit()
ScopeAdd(u, ttl, fails) ==
    /\ Buildable(u)
    /\ LET e  == uow_enter(uow, Store)
           s1 == HeapAlloc(e.s, DeviceInit(u, ttl, PyInt(clock)).obj)
           s2 == add(s1, u, Len(s1.heap[u]))
           s3 == IF fails THEN s2 ELSE commit(e.w, s2)
       IN  /\ SetStore(uow_exit(e.w, s3), e.w)
           /\ uow' = e.w
    /\ last' = Outcome("scope_add", u, IF fails THEN "Exception" ELSE None,
                        None, None, <<>>)
    /\ UNCHANGED <<clock, last_poll, fired, promised, request, tick>>

\* A command handler called directly with the unit of work, not through
\* the bus: remove_device(RemoveDeviceCommand(u), uow)
CallRemoveDevice(u) ==
    /\ EventRoom(u)
    /\ LET r == remove_device(RemoveDeviceCommand(u), uow, Store, clock)
       IN  /\ SetStore(r.s, r.w)
           /\ uow' = r.w
           /\ last' = Outcome("remove_device", u, r.exc, "remove_device", r.exc, <<>>)
    /\ promised' = Unpromise(u)
    /\ UNCHANGED <<clock, last_poll, fired, request, tick>>

\* The application as wired by bootstrap: requests and poller ticks.
Next ==
    \/ AdvanceClock
    \/ \E u \in UUIDS, ttl \in TTLS : DispatchRegister(u, ttl)
    \/ \E u \in UUIDS : DispatchRemove(u)
    \/ \E u \in UUIDS : DispatchKeepAlive(u)
    \/ CheckAndFire

Spec == Init /\ [][Next]_vars

\* The core driven through its own interfaces as well: the repository, the
\* unit of work and the handlers called directly, beside the application's
\* bus and the poller.
NextCore ==
    \/ AdvanceClock
    \/ \E u \in UUIDS : DispatchKeepAlive(u)
    \/ CheckAndFire
    \/ \E u \in UUIDS, ttl \in TTLS : RepoAdd(u, ttl)
    \/ \E u \in UUIDS, ttl \in TTLS, fails \in BOOLEAN : ScopeAdd(u, ttl, fails)
    \/ \E u \in UUIDS : CallRemoveDevice(u)

SpecCore == Init /\ [][NextCore]_vars


\* The seconds a fire_at can be: a clock value plus nothing or a ttl.
Seconds == {t + ttl : t \in 0..MaxTime, ttl \in TTLS \cup {0}}

\* The Device objects built so far.
RECURSIVE BuiltOf(_)
BuiltOf(uuids) ==
    IF uuids = {} THEN 0
    ELSE LET u == CHOOSE v \in uuids : TRUE
         IN  Len(heap[u]) + BuiltOf(uuids \ {u})

Built == BuiltOf(UUIDS)

\* The bounds of the range queries made: windows of one or two seconds.
Windows == {w \in Seconds \X Seconds : w[2] \in {w[1], w[1] + 1}}

\* repository.add(Device(u, ..., ttl, created_at=now)) for a uuid that is
\* in the store: another Device object with that uuid.
RepoAddAgain(u, ttl) ==
    /\ by_uuid[u] # NoObj
    /\ Built < MaxObjects
    /\ LET s1 == HeapAlloc(Store, DeviceInit(u, ttl, PyInt(clock)).obj)
       IN  SetStore(add(s1, u, Len(s1.heap[u])), uow)
    /\ last' = Outcome("add", u, None, None, None, <<>>)
    /\ UNCHANGED <<clock, last_poll, uow, fired, promised, request, tick>>

\* repository.get_fire_at_between(start, end), outside any scope
RepoGetFireAtBetween(start, end) ==
    /\ LET r == get_fire_at_between(Store, start, end)
       IN  /\ SetStore(r.s, uow)
           /\ last' = Outcome("get_fire_at_between", None, None, None, None, r.ret)
    /\ UNCHANGED <<clock, last_poll, uow, fired, promised, request, tick>>

\* The repository driven directly, outside any unit of work.
NextRepo ==
    \/ AdvanceClock
    \/ \E u \in UUIDS, ttl \in TTLS : RepoAdd(u, ttl)
    \/ \E u \in UUIDS, ttl \in TTLS : RepoAddAgain(u, ttl)
    \/ \E w \in Windows : RepoGetFireAtBetween(w[1], w[2])

SpecRepo == Init /\ [][NextRepo]_vars

\* The buses by name.
Buses == [bootstrap |-> BootstrapBus, other |-> OtherBus]

\* What a caller may pass to handle: the commands of the endpoints, the
\* events of a stored device, and an object that is no message.
Messages ==
    {KeepAliveDeviceCommand(u) : u \in UUIDS}
      \cup {RemoveDeviceCommand(u) : u \in UUIDS}
      \cup {RegisterDeviceEvent(heap[u][by_uuid[u]]) : u \in {v \in UUIDS : by_uuid[v] # NoObj}}
      \cup {KeepAliveDeviceEvent(heap[u][by_uuid[u]]) : u \in {v \in UUIDS : by_uuid[v] # NoObj}}
      \cup {[type |-> "str", uuid |-> None]}

\* bus.handle(message) on the bus of that name, both buses built on the
\* request thread's unit of work.
BusHandle(name, message) ==
    /\ message.uuid \in UUIDS => EventRoom(message.uuid)
    /\ LET b == handle(Buses[name], uow, Store, message, clock)
       IN  /\ SetStore(b.s, b.w)
           /\ uow' = b.w
           /\ last' = HandleOutcome(name, message, b)
    /\ UNCHANGED <<clock, last_poll, fired, promised, request, tick>>

\* The message bus driven directly, on bootstrap's maps and on others,
\* over a store filled through the repository; remove_device called
\* outside a bus leaves its event pending on the device.
NextBus ==
    \/ AdvanceClock
    \/ \E u \in UUIDS, ttl \in TTLS : RepoAdd(u, ttl)
    \/ \E u \in UUIDS : CallRemoveDevice(u)
    \/ \E name \in DOMAIN Buses, message \in Messages : BusHandle(name, message)

SpecBus == Init /\ [][NextBus]_vars

\* ------------------------------------------------------- threads, by steps
\* The REST endpoints are plain functions, run in the server's thread pool,
\* and the poller runs in the scheduler's thread; nothing in the code locks
\* the shared repository. Here a keep-alive request and a poller tick run
\* one repository statement at a time, the steps of the two interleaving.

\* The store after a step; the request thread's unit of work is w.
Step(s, w) ==
    /\ SetStore(s, w)
    /\ uow' = w

\* keep_alive_device, `with uow:` -> InMemoryDeviceUnitOfWork.__enter__
ReqEnter(u) ==
    /\ request.pc = "idle"
    /\ request.served < MaxRequests
    /\ EventRoom(u)
    /\ LET e == uow_enter(uow, Store)
       IN  Step(e.s, e.w)
    /\ request' = [IdleRequest EXCEPT !.pc = "get", !.uuid = u,
                                       !.served = request.served]
    /\ UNCHANGED <<clock, last_poll, fired, promised, last, tick>>

\* device = uow.devices.get(cmd.uuid); raise NotFoundError, or compute
\* params["fire_at"] from the clock and the device's ttl
ReqGet ==
    /\ request.pc = "get"
    /\ Step(get(Store, request.uuid), uow)
    /\ request' =
         IF _get(Store, request.uuid) = NoObj
         THEN [request EXCEPT !.pc = "exit", !.exc = "NotFoundError"]
         ELSE [request EXCEPT
                 !.pc = "update",
                 !.fire_at =
                     int_timestamp(get_utc_tz_aware_datetime(datetime_now(clock)))
                         + Obj(Store, request.uuid, _get(Store, request.uuid)).ttl]
    /\ UNCHANGED <<clock, last_poll, fired, promised, last, tick>>

\* uow.devices.update: device = self.get(uuid), then _update up to and
\* including setattr(device, "fire_at", value)
ReqUpdateSetattr ==
    /\ request.pc = "update"
    /\ LET s1  == get(Store, request.uuid)
           old == Obj(s1, request.uuid, _get(s1, request.uuid)).fire_at
       IN  IF _get(s1, request.uuid) = NoObj
           THEN /\ Step(s1, uow)
                /\ request' = [request EXCEPT !.pc = "event"]
           ELSE /\ Step(update_setattr(s1, request.uuid, request.fire_at), uow)
                /\ request' = [request EXCEPT
                                 !.old_fire_at = old,
                                 !.pc = IF request.fire_at # old
                                        THEN "unindex" ELSE "seen"]
    /\ UNCHANGED <<clock, last_poll, fired, promised, last, tick>>

\* _update: self.by_fire_at[old_fire_at].discard(uuid), the emptied bucket
\* deleted
ReqUpdateUnindex ==
    /\ request.pc = "unindex"
    /\ Step(update_unindex(Store, request.uuid, request.old_fire_at), uow)
    /\ request' = [request EXCEPT !.pc = "index"]
    /\ UNCHANGED <<clock, last_poll, fired, promised, last, tick>>

\* _update: self.by_fire_at[fields["fire_at"]].add(uuid)
ReqUpdateIndex ==
    /\ request.pc = "index"
    /\ Step(update_index(Store, request.uuid, request.fire_at), uow)
    /\ request' = [request EXCEPT !.pc = "seen"]
    /\ UNCHANGED <<clock, last_poll, fired, promised, last, tick>>

\* The device object the request thread holds: the only one of its uuid.
RequestDevice == Len(heap[request.uuid])

\* update: self.seen.add(device); then, in the handler,
\* device.generate_event_keep_alive_device() and uow.commit()
ReqEvent ==
    /\ request.pc \in {"seen", "event"}
    /\ LET s1 == IF request.pc = "seen"
                 THEN [Store EXCEPT !.seen = SeenAdd(@, request.uuid, RequestDevice)]
                 ELSE Store
           s2 == [s1 EXCEPT !.heap[request.uuid][RequestDevice] =
                                generate_event_keep_alive_device(@)]
       IN  Step(commit(uow, s2), uow)
    /\ request' = [request EXCEPT !.pc = "exit"]
    /\ UNCHANGED <<clock, last_poll, fired, promised, last, tick>>

\* The devices of a backup, in the order rollback adds them again.
BackupList(backup) == SetToSeq({u \in UUIDS : backup[u] # NoObj})

\* __exit__ -> rollback: self._repository.remove_all()
ReqExitRemoveAll ==
    /\ request.pc = "exit"
    /\ Step(remove_all(Store), uow)
    /\ request' = [request EXCEPT !.pc = "restore", !.todo = BackupList(uow.backup)]
    /\ UNCHANGED <<clock, last_poll, fired, promised, last, tick>>

\* rollback: one pass of `for device in devices: self._repository.add(device)`
ReqExitAdd ==
    /\ request.pc = "restore"
    /\ request.todo # <<>>
    /\ Step(add(Store, Head(request.todo), uow.backup[Head(request.todo)]), uow)
    /\ request' = [request EXCEPT !.todo = Tail(@)]
    /\ UNCHANGED <<clock, last_poll, fired, promised, last, tick>>

\* The handler has returned or raised: the rest of _handle_command and of
\* handle (the events collected and handled), and the request's outcome.
ReqReturn ==
    /\ request.pc = "restore"
    /\ request.todo = <<>>
    /\ LET cmd == KeepAliveDeviceCommand(request.uuid)
           b0  == [w |-> uow, s |-> Store, queue |-> <<>>, exc |-> None,
                   raised |-> None,
                   handled |-> <<<<"keep_alive_device", cmd>>>>]
           b   == HandleLoop(BootstrapBus,
                             AfterCommandHandler(b0, [w |-> uow, s |-> Store,
                                                      exc |-> request.exc]),
                             clock)
       IN  /\ Step(b.s, b.w)
           /\ last' = [HandleOutcome("bootstrap", cmd, b)
                          EXCEPT !.before = request.old_fire_at]
    /\ request' = [IdleRequest EXCEPT !.served = request.served + 1]
    /\ promised' = Unpromise(request.uuid)
    /\ UNCHANGED <<clock, last_poll, fired, tick>>

\* check_and_fire: now, start_time, end_time; a new unit of work entered.
\* The scheduler starts the ticks interval_sec seconds apart: time has
\* passed since the previous tick read the clock.
TickEnter ==
    /\ tick.pc = "idle"
    /\ clock > last_poll
    /\ LET e == uow_enter(NewUow, Store)
       IN  /\ Step(e.s, uow)
           /\ tick' = [IdleTick EXCEPT !.pc = "scan", !.now = clock,
                                       !.start_time = last_poll + 1,
                                       !.end_time = clock,
                                       !.ts = last_poll + 1,
                                       !.backup = e.w.backup]
    /\ UNCHANGED <<clock, last_poll, fired, promised, last, request>>

\* The devices a scan of second ts picks up, each with the second scanned
\* and the fire_at its object has at that moment (history).
Picked(s, ts) ==
    {[uuid |-> u, ts |-> ts, fire_at |-> Obj(s, u, _get(s, u)).fire_at] :
        u \in {v \in BucketGet(s.by_fire_at, ts) : _get(s, v) # NoObj}}

\* _get_fire_at_between: the inner loop for second ts
TickScan ==
    /\ tick.pc = "scan"
    /\ tick.ts <= tick.end_time
    /\ tick' = [tick EXCEPT !.pc = "pop",
                            !.devices = @ \o BucketDevices(Store, tick.ts),
                            !.picked = @ \cup Picked(Store, tick.ts)]
    /\ UNCHANGED <<clock, heap, by_uuid, by_fire_at, seen, last_poll, uow,
                   fired, promised, last, request>>

\* _get_fire_at_between: self.by_fire_at.pop(ts, None)
TickPop ==
    /\ tick.pc = "pop"
    /\ Step([Store EXCEPT !.by_fire_at = BucketDel(@, tick.ts)], uow)
    /\ tick' = [tick EXCEPT !.pc = "scan", !.ts = @ + 1]
    /\ UNCHANGED <<clock, last_poll, fired, promised, last, request>>

\* get_fire_at_between: self.seen.update(devices); then the loop of
\* check_and_fire that fires each device returned
TickFire ==
    /\ tick.pc = "scan"
    /\ tick.ts > tick.end_time
    /\ Step([Store EXCEPT !.seen = SeenUpdateList(@, tick.devices)], uow)
    /\ fired' = fired \cup Uuids(tick.devices)
    /\ tick' = [tick EXCEPT !.pc = "exit"]
    /\ UNCHANGED <<clock, last_poll, promised, last, request>>

\* __exit__ -> rollback: self._repository.remove_all()
TickExitRemoveAll ==
    /\ tick.pc = "exit"
    /\ Step(remove_all(Store), uow)
    /\ tick' = [tick EXCEPT !.pc = "restore", !.todo = BackupList(tick.backup)]
    /\ UNCHANGED <<clock, last_poll, fired, promised, last, request>>

\* rollback: one pass of `for device in devices: self._repository.add(device)`
TickExitAdd ==
    /\ tick.pc = "restore"
    /\ tick.todo # <<>>
    /\ Step(add(Store, Head(tick.todo), tick.backup[Head(tick.todo)]), uow)
    /\ tick' = [tick EXCEPT !.todo = Tail(@)]
    /\ UNCHANGED <<clock, last_poll, fired, promised, last, request>>

\* check_and_fire: self._last_poll = now
TickReturn ==
    /\ tick.pc = "restore"
    /\ tick.todo = <<>>
    /\ last_poll' = tick.now
    /\ last' = [Outcome("check_and_fire", None, None, None, None, tick.devices)
                   EXCEPT !.window = <<tick.start_time, tick.end_time>>]
    /\ tick' = IdleTick
    /\ UNCHANGED <<clock, heap, by_uuid, by_fire_at, seen, uow, fired,
                   promised, request>>

\* Devices enter the store at time 0, while no thread is inside the
\* repository; then keep-alive requests, MaxRequests of them one after the
\* other, and poller ticks run concurrently.
NextRace ==
    \/ AdvanceClock
    \/ \E u \in UUIDS, ttl \in TTLS :
           /\ clock = 0 /\ request = IdleRequest /\ tick.pc = "idle"
           /\ RepoAdd(u, ttl)
    \/ \E u \in UUIDS : ReqEnter(u)
    \/ ReqGet
    \/ ReqUpdateSetattr
    \/ ReqUpdateUnindex
    \/ ReqUpdateIndex
    \/ ReqEvent
    \/ ReqExitRemoveAll
    \/ ReqExitAdd
    \/ ReqReturn
    \/ TickEnter
    \/ TickScan
    \/ TickPop
    \/ TickFire
    \/ TickExitRemoveAll
    \/ TickExitAdd
    \/ TickReturn

SpecRace == Init /\ [][NextRace]_vars


\* ------------------------------------------------------- the Device alone
\* The consumer ids passed to consume.
CONSUMERS == {"a", "b"}

\* The calls of consume made on one Device object.
MaxConsumes == 2

\* Device(u, ..., ttl, created_at=now), held by the caller alone.
NewDevice(u, ttl) ==
    /\ Buildable(u)
    /\ DeviceInit(u, ttl, PyInt(clock)).exc = None
    /\ heap' = HeapAlloc(Store, DeviceInit(u, ttl, PyInt(clock)).obj).heap
    /\ last' = Outcome("Device", u, None, None, None, <<>>)
    /\ UNCHANGED <<clock, by_uuid, by_fire_at, seen, last_poll, uow, fired,
                   promised, request, tick>>

\* device.consume(consumer_id) on the Device object built for u; nothing
\* in it raises. The history keeps the consumer id passed.
Consume(u, consumer_id) ==
    /\ heap[u] # <<>>
    /\ heap[u][1].version_number < MaxConsumes
    /\ heap' = [heap EXCEPT ![u][1] = consume(@, consumer_id)]
    /\ last' = Outcome("consume", u, None, None, None, <<consumer_id>>)
    /\ UNCHANGED <<clock, by_uuid, by_fire_at, seen, last_poll, uow, fired,
                   promised, request, tick>>

\* Device objects built and consumed, outside any store.
NextDevice ==
    \/ AdvanceClock
    \/ \E u \in UUIDS, ttl \in TTLS : NewDevice(u, ttl)
    \/ \E u \in UUIDS, c \in CONSUMERS : Consume(u, c)

SpecDevice == Init /\ [][NextDevice]_vars

\* -------------------------------------------------- scopes used directly
\* A unit-of-work scope used directly:
\*   with uow: uow.devices.update(u, fire_at=fire_at); [raise]; uow.commit()
ScopeUpdate(u, fire_at, fails) ==
    /\ LET e  == uow_enter(uow, Store)
           s1 == update(e.s, u, fire_at)
           s2 == IF fails THEN s1 ELSE commit(e.w, s1)
       IN  /\ SetStore(uow_exit(e.w, s2), e.w)
           /\ uow' = e.w
    /\ last' = Outcome("scope_update", u, IF fails THEN "Exception" ELSE None,
                        None, None, <<>>)
    /\ UNCHANGED <<clock, last_poll, fired, promised, request, tick>>

\* repository.remove(u), outside any scope
RepoRemove(u) ==
    /\ SetStore(remove(Store, u), uow)
    /\ last' = Outcome("remove", u, None, None, None, <<>>)
    /\ UNCHANGED <<clock, last_poll, uow, fired, promised, request, tick>>

\* The store filled and emptied through the repository, and updated
\* inside scopes that commit or fail.
NextScope ==
    \/ AdvanceClock
    \/ \E u \in UUIDS, ttl \in TTLS : RepoAdd(u, ttl)
    \/ \E u \in UUIDS : RepoRemove(u)
    \/ \E u \in UUIDS, f \in Seconds, fails \in BOOLEAN : ScopeUpdate(u, f, fails)

SpecScope == Init /\ [][NextScope]_vars

\* ------------------------------------------------------- events harvested
\* list(uow.collect_new_events()) on the request thread's unit of work,
\* outside a bus; the history keeps the events yielded.
CollectNewEvents ==
    /\ LET c == collect_new_events(uow, Store)
       IN  /\ SetStore(c.s, uow)
           /\ last' = Outcome("collect_new_events", None, c.exc, None, None, c.ret)
    /\ UNCHANGED <<clock, last_poll, uow, fired, promised, request, tick>>

\* Devices added to the repository, once or again under a uuid it holds,
\* handlers that leave an event pending, and the events harvested.
NextEvents ==
    \/ AdvanceClock
    \/ \E u \in UUIDS, ttl \in TTLS : RepoAdd(u, ttl)
    \/ \E u \in UUIDS, ttl \in TTLS : RepoAddAgain(u, ttl)
    \/ \E u \in UUIDS : CallRemoveDevice(u)
    \/ CollectNewEvents

SpecEvents == Init /\ [][NextEvents]_vars

\* ------------------------------------------------------- the poller alone
\* A ttl that puts fire_at beyond what datetime can represent.
FarTtl == DatetimeMax + 1

\* Poller ticks over a store filled through the repository, with devices
\* of any ttl, added once or again under a uuid the store holds.
NextPoller ==
    \/ AdvanceClock
    \/ \E u \in UUIDS, ttl \in TTLS : RepoAdd(u, ttl)
    \/ \E u \in UUIDS, ttl \in TTLS \cup {FarTtl} : RepoAddAgain(u, ttl)
    \/ CheckAndFire

SpecPoller == Init /\ [][NextPoller]_vars

\* ------------------------------------------------- the repository, in full
\* repository.update(u, fire_at=fire_at), outside any scope
RepoUpdate(u, fire_at) ==
    /\ SetStore(update(Store, u, fire_at), uow)
    /\ last' = Outcome("update", u, None, None, None, <<>>)
    /\ UNCHANGED <<clock, last_poll, uow, fired, promised, request, tick>>

\* repository.remove_all(), outside any scope
RepoRemoveAll ==
    /\ SetStore(remove_all(Store), uow)
    /\ last' = Outcome("remove_all", None, None, None, None, <<>>)
    /\ UNCHANGED <<clock, last_poll, uow, fired, promised, request, tick>>

\* Every operation of the in-memory store, in any order; an update sets
\* fire_at to the clock plus a ttl, as keep_alive_device does, and a range
\* query ends at the clock, as the poller's does.
NextIndex ==
    \/ AdvanceClock
    \/ \E u \in UUIDS, ttl \in TTLS : RepoAdd(u, ttl)
    \/ \E u \in UUIDS, ttl \in TTLS : RepoAddAgain(u, ttl)
    \/ \E u \in UUIDS, ttl \in TTLS : RepoUpdate(u, clock + ttl)
    \/ \E u \in UUIDS : RepoRemove(u)
    \/ RepoRemoveAll
    \/ \E w \in Windows : w[2] = clock /\ RepoGetFireAtBetween(w[1], w[2])

SpecIndex == Init /\ [][NextIndex]_vars

\* ---------------------------------------------------- two request threads
\* A keep-alive request served by another thread of the pool, on that
\* thread's own bus and unit of work (get_bus) over the shared repository,
\* run in one piece between two steps of the request thread.
OtherThreadKeepAlive(u) ==
    /\ EventRoom(u)
    /\ LET message == KeepAliveDeviceCommand(u)
           b == handle(BootstrapBus, NewUow, Store, message, clock)
       IN  /\ SetStore(b.s, uow)
           /\ last' = HandleOutcome("bootstrap", message, b)
    /\ UNCHANGED <<clock, last_poll, uow, fired, promised, request, tick>>

\* Devices enter the store at time 0, while no thread is inside the
\* repository; then the keep-alive requests of two threads run
\* concurrently, one of them step by step.
NextThreads ==
    \/ AdvanceClock
    \/ \E u \in UUIDS, ttl \in TTLS :
           /\ clock = 0 /\ request = IdleRequest
           /\ RepoAdd(u, ttl)
    \/ \E u \in UUIDS : ReqEnter(u)
    \/ ReqGet
    \/ ReqUpdateSetattr
    \/ ReqUpdateUnindex
    \/ ReqUpdateIndex
    \/ ReqEvent
    \/ ReqExitRemoveAll
    \/ ReqExitAdd
    \/ ReqReturn
    \/ \E u \in UUIDS : OtherThreadKeepAlive(u)

SpecThreads == Init /\ [][NextThreads]_vars

\* ------------------------------------------- the store read outside scopes
\* The `devices` property of AbstractDeviceUnitOfWork: the exception it
\* raises (None: it returns the repository). __init__ sets _devices to
\* None, __enter__ binds it, and nothing sets it back.
devices_getter(w) == IF w.devices THEN None ELSE "RuntimeError"

\* uow.devices.get(u) while no scope of uow is open.
ReadDevices(u) ==
    /\ IF devices_getter(uow) = None
       THEN SetStore(get(Store, u), uow)
       ELSE UNCHANGED <<heap, by_uuid, by_fire_at, seen>>
    /\ last' = Outcome("devices", u, devices_getter(uow), None, None, <<>>)
    /\ UNCHANGED <<clock, last_poll, uow, fired, promised, request, tick>>

\* A unit of work whose scopes open and close, and whose store is read
\* between them.
NextAccess ==
    \/ AdvanceClock
    \/ \E u \in UUIDS, ttl \in TTLS : RepoAdd(u, ttl)
    \/ \E u \in UUIDS, ttl \in TTLS, fails \in BOOLEAN : ScopeAdd(u, ttl, fails)
    \/ \E u \in UUIDS : ReadDevices(u)

SpecAccess == Init /\ [][NextAccess]_vars

\* ------------------------------------------------------------------ claims
CommandTypes == {"RegisterDeviceCommand", "RemoveDeviceCommand",
                 "KeepAliveDeviceCommand"}

\* The uuid is in the identity index and in the bucket of its object's fire_at.
Indexed(u) ==
    /\ by_uuid[u] # NoObj
    /\ u \in BucketGet(by_fire_at, heap[u][by_uuid[u]].fire_at)

\* The uuid is in neither index.
Absent(u) ==
    /\ by_uuid[u] = NoObj
    /\ \A ts \in DOMAIN by_fire_at : u \notin by_fire_at[ts]

\* C1: a device registered by a RegisterDevice command and neither kept
\* alive nor removed has been fired once a poller tick has covered its
\* fire_at (the tick whose window holds fire_at returns it).
C1_RegisteredDeviceIsFired ==
    (promised.uuid # None /\ last_poll >= promised.fire_at)
        => promised.uuid \in fired

\* C2: at most once: a poller tick never returns a device that an earlier
\* tick has returned.
C2_FiredAtMostOnce ==
    [][CheckAndFire => \A u \in Uuids(last'.ret) : u \notin fired]_vars

\* C3: the mutations of a scope that commits and exits without an exception
\* stay in the store: the added device is in the identity index and in the
\* bucket of its fire_at, also after a RegisterDevice dispatch that returned.
C3_CommitKeepsMutations ==
    [][\A u \in UUIDS, ttl \in TTLS :
          /\ ScopeAdd(u, ttl, FALSE) => Indexed(u)'
          /\ (DispatchRegister(u, ttl) /\ last'.exc = None) => Indexed(u)'
      ]_vars

\* C4: a scope that raises after an add and before commit leaves the
\* identity index holding exactly the devices present at scope entry.
C4_RollbackOnFailure ==
    [][\A u \in UUIDS, ttl \in TTLS :
          ScopeAdd(u, ttl, TRUE) =>
              /\ by_uuid' = by_uuid
              /\ \A v \in UUIDS : by_uuid[v] # NoObj =>
                     heap'[v][by_uuid[v]] = heap[v][by_uuid[v]]
      ]_vars

\* C4 witness: a failed scope tried to add a device to a store that held
\* another device; the store holds that other device only.
C4_Witness ==
    /\ last.op = "scope_add" /\ last.exc = "Exception"
    /\ by_uuid[last.uuid] = NoObj
    /\ \E v \in UUIDS : by_uuid[v] # NoObj

\* The fire_at of the object indexed under u.
FireAt(u) == heap[u][by_uuid[u]].fire_at

C6_KeptAliveNotFired ==
    \A p \in tick.picked : p.fire_at \in tick.start_time..tick.end_time

\* C7: after remove_device has returned for a device of the store, the
\* device is in neither index.
C7_RemovedIsAbsent ==
    [][\A u \in UUIDS :
          (CallRemoveDevice(u) /\ by_uuid[u] # NoObj /\ last'.exc = None)
              => Absent(u)'
      ]_vars

\* The handler of each command.
HandlerOf(type) ==
    CASE type = "RegisterDeviceCommand"  -> "register_device"
      [] type = "RemoveDeviceCommand"    -> "remove_device"
      [] type = "KeepAliveDeviceCommand" -> "keep_alive_device"

\* C8: a dispatch of RegisterDevice, RemoveDevice or KeepAliveDevice on the
\* application's bus reaches the command's handler.
C8_CommandsReachHandler ==
    last.op \in CommandTypes => last.handler = HandlerOf(last.op)

\* C9: a dispatch of RemoveDevice or KeepAliveDevice for a uuid that is not
\* in the store fails with NotFoundError and leaves the store as it was.
C9_NotFoundWithoutMutation ==
    [][\A u \in UUIDS :
          ((DispatchRemove(u) \/ DispatchKeepAlive(u)) /\ by_uuid[u] = NoObj) =>
              /\ last'.exc = "NotFoundError"
              /\ by_uuid' = by_uuid
              /\ by_fire_at' = by_fire_at
      ]_vars

\* C10: when the handler of a dispatched command raises, the same exception
\* leaves handle, and the store holds what it held before the dispatch.
C10_CommandFailurePropagates ==
    [][\A u \in UUIDS :
          (/\ \/ DispatchRemove(u)
              \/ DispatchKeepAlive(u)
              \/ \E ttl \in TTLS : DispatchRegister(u, ttl)
           /\ last'.raised # None) =>
              /\ last'.exc = last'.raised
              /\ by_uuid' = by_uuid
              /\ by_fire_at' = by_fire_at
      ]_vars

\* The handlers the bus of history record l has for the type of event e.
SiblingHandlers(l, e) == Buses[l.bus].event_handlers[e.type]

\* C11: in a run of handle where an event handler raised, every handler
\* registered for that event was invoked with it, no exception left
\* handle, and the queue was drained.
C11_EventHandlerIsolation ==
    last.bus # None =>
        \A i \in DOMAIN last.handled :
            EventHandlerRaises(last.handled[i][1]) =>
                /\ \A k \in DOMAIN SiblingHandlers(last, last.handled[i][2]) :
                       \E j \in DOMAIN last.handled :
                           last.handled[j] =
                               <<SiblingHandlers(last, last.handled[i][2])[k],
                                 last.handled[i][2]>>
                /\ last.exc = None
                /\ last.queue = <<>>

\* C11 witness: a handler raised for the first of two queued events; its
\* sibling ran after it, and so did the handlers of the second event.
C11_Witness ==
    /\ last.bus = "other" /\ last.exc = None
    /\ Len(last.handled) = 5
    /\ EventHandlerRaises(last.handled[2][1])
    /\ ~EventHandlerRaises(last.handled[3][1])
    /\ last.handled[3][2] = last.handled[2][2]
    /\ last.handled[5][2].type # last.handled[2][2].type
    /\ ~EventHandlerRaises(last.handled[5][1])

\* C10 witness: keep_alive_device raised NotFoundError inside its scope
\* and the same exception left handle.
C10_Witness ==
    /\ last.op = "KeepAliveDeviceCommand"
    /\ last.handler = "keep_alive_device"
    /\ last.raised = "NotFoundError"
    /\ last.exc = "NotFoundError"

\* C12: a dispatch of RegisterDevice on the application's bus returns
\* normally, and when it ends every handler registered for the registered
\* event has been invoked with the event of the registered device.
C12_RegisterCascade ==
    (last.op = "RegisterDeviceCommand" /\ last.bus = "bootstrap") =>
        /\ last.exc = None
        /\ \A k \in DOMAIN EVENT_HANDLERS.RegisterDeviceEvent :
               \E j \in DOMAIN last.handled :
                   /\ last.handled[j][1] = EVENT_HANDLERS.RegisterDeviceEvent[k]
                   /\ last.handled[j][2].type = "RegisterDeviceEvent"
                   /\ last.handled[j][2].uuid = last.uuid

\* C13: a second get_fire_at_between with the bounds of the first, nothing
\* done to the store in between, returns the empty list, the bounds equal
\* or not.
C13_ClaimOnRead ==
    [][\A w \in Windows :
          RepoGetFireAtBetween(w[1], w[2]) =>
              get_fire_at_between(Store', w[1], w[2]).ret = <<>>
      ]_vars

\* C13 witness: a query has returned a device that is still in the
\* identity index, and the bucket of its fire_at is gone.
C13_Witness ==
    /\ last.op = "get_fire_at_between"
    /\ \E i \in DOMAIN last.ret :
           /\ by_uuid[last.ret[i][1]] = last.ret[i][2]
           /\ FireAt(last.ret[i][1]) \notin DOMAIN by_fire_at

\* C14: get_fire_at_between(s, e) with s <= e returns every device of the
\* store whose fire_at is s or e and none whose fire_at is s - 1 or e + 1.
C14_RangeInclusive ==
    [][\A w \in Windows :
          RepoGetFireAtBetween(w[1], w[2]) =>
              \A u \in UUIDS : by_uuid[u] # NoObj =>
                  /\ FireAt(u) \in {w[1], w[2]} => u \in Uuids(last'.ret)
                  /\ FireAt(u) \in {w[1] - 1, w[2] + 1} => u \notin Uuids(last'.ret)
      ]_vars

\* The devices of the store whose fire_at is within start..end.
DueBetween(start, end) ==
    {u \in UUIDS : by_uuid[u] # NoObj /\ FireAt(u) \in start..end}

\* C15: the steps of the scenario, at any time t and for any ttl: a
\* RegisterDevice at t leaves the device in the store with fire_at t + ttl;
\* a KeepAliveDevice at t moves it to t + ttl; a tick returns the device
\* when its window holds the device's fire_at and nothing otherwise; a
\* tick repeated in the second of the previous one returns nothing.
C15_Scenario ==
    [][/\ \A u \in UUIDS, ttl \in TTLS :
             DispatchRegister(u, ttl) =>
                 /\ last'.exc = None
                 /\ Indexed(u)'
                 /\ FireAt(u)' = clock + ttl
       /\ \A u \in UUIDS :
             (DispatchKeepAlive(u) /\ by_uuid[u] # NoObj) =>
                 /\ last'.exc = None
                 /\ FireAt(u)' = clock + heap[u][by_uuid[u]].ttl
       /\ CheckAndFire =>
             /\ Uuids(last'.ret) = DueBetween(last_poll + 1, clock)
             /\ (last.op = "check_and_fire" /\ last_poll = clock) =>
                    last'.ret = <<>>
      ]_vars

\* C16: a RegisterDevice(uuid, ttl) handled at time t returns, the device
\* it created has fire_at = t + ttl, and one registered event carrying
\* that fire_at was queued on it (the bus handled exactly one).
C16_RegistrationResult ==
    [][\A u \in UUIDS, ttl \in TTLS :
          DispatchRegister(u, ttl) =>
              /\ last'.raised = None
              /\ by_uuid'[u] # NoObj
              /\ FireAt(u)' = clock + ttl
              /\ Cardinality({j \in DOMAIN last'.handled :
                      last'.handled[j] =
                          <<"register_device_event",
                            RegisterDeviceEvent(heap'[u][by_uuid'[u]])>>}) = 1
      ]_vars

\* Some operation leaves the fire_at of a device of the store smaller.
FireAtDecreases ==
    \E u \in UUIDS :
        /\ by_uuid[u] # NoObj
        /\ by_uuid'[u] = by_uuid[u]
        /\ FireAt(u)' < FireAt(u)

Given(l) == [type |-> l.op]

\* C18: a handle given an event whose type has no entry in the bus's
\* event-handler map raises nothing, runs no handler and drains the queue.
C18_UnhandledEventIsNoOp ==
    (/\ last.bus # None
     /\ IsEvent(Given(last))
     /\ last.op \notin DOMAIN Buses[last.bus].event_handlers) =>
        /\ last.exc = None
        /\ last.handled = <<>>
        /\ last.queue = <<>>

\* C19: a handle given a command whose type has no entry in the bus's
\* command-handler map raises to the caller, runs no handler, and leaves
\* the repository as it was.
C19_UnhandledCommandFails ==
    [][\A name \in DOMAIN Buses, message \in Messages :
          (/\ IsCommand(message)
           /\ message.type \notin DOMAIN Buses[name].command_handlers
           /\ BusHandle(name, message)) =>
              /\ last'.exc # None
              /\ last'.handled = <<>>
              /\ <<heap, by_uuid, by_fire_at, seen>>' =
                     <<heap, by_uuid, by_fire_at, seen>>
      ]_vars

\* C19 witness: RemoveDeviceCommand, which bootstrap's map does not hold,
\* was given to the application's bus for a device of the store: KeyError
\* left handle and the device is still indexed.
C19_Witness ==
    /\ last.bus = "bootstrap"
    /\ last.op = "RemoveDeviceCommand"
    /\ last.op \notin DOMAIN Buses[last.bus].command_handlers
    /\ last.exc = "KeyError"
    /\ Indexed(last.uuid)

\* C20: a handle given what is neither a command nor an event raises
\* InvalidMessageTypeError and invokes no handler.
C20_InvalidMessage ==
    (/\ last.bus # None
     /\ ~IsEvent(Given(last))
     /\ ~IsCommand(Given(last))) =>
        /\ last.exc = "InvalidMessageTypeError"
        /\ last.handled = <<>>

\* C20 witness: a handle was given an object that is no message, over a
\* store holding a device, and raised InvalidMessageTypeError.
C20_Witness ==
    /\ last.bus # None
    /\ last.op = "str"
    /\ last.exc = "InvalidMessageTypeError"
    /\ \E u \in UUIDS : Indexed(u)

\* The events pending on the objects of the seen set, for the uuids given.
RECURSIVE PendingOf(_)
PendingOf(uuids) ==
    IF uuids = {} THEN 0
    ELSE LET u == CHOOSE v \in uuids : TRUE
         IN  (IF seen[u] # NoObj THEN Len(heap[u][seen[u]].events) ELSE 0)
                 + PendingOf(uuids \ {u})

\* The events a successful run of handle(message) generates on the
\* application's bus: the keep-alive event of the keep-alive handler.
Generated(message) ==
    IF message.type = "KeepAliveDeviceCommand" THEN 1 ELSE 0

C22_StoreAccessIsAtomic ==
    [][(/\ ReqGet
        /\ tick.pc # "idle"
        /\ tick.backup[request.uuid] # NoObj)
           => request'.exc # "NotFoundError"
      ]_vars

\* C23: every call of consume, on a fresh device or on a consumed one,
\* returns without raising, leaves consumed true and version_number one
\* higher than it was.
C23_ConsumeBumpsVersion ==
    [][\A u \in UUIDS, c \in CONSUMERS :
           Consume(u, c) =>
               /\ last'.exc = None
               /\ heap'[u][1].consumed
               /\ heap'[u][1].version_number = heap[u][1].version_number + 1
      ]_vars

\* C23 witness: consume was called on a device that was consumed already.
C23_Witness ==
    /\ last.op = "consume" /\ last.exc = None
    /\ heap[last.uuid][1].consumed
    /\ heap[last.uuid][1].version_number = 2

\* C24: consumer_id is None until the first consume, and a consume of a
\* consumed device leaves consumer_id as the first consume set it.
C24_FirstConsumerWins ==
    [][\A u \in UUIDS, c \in CONSUMERS :
           Consume(u, c) =>
               /\ ~heap[u][1].consumed => heap[u][1].consumer_id = None
               /\ heap[u][1].consumed =>
                      heap'[u][1].consumer_id = heap[u][1].consumer_id
      ]_vars

\* C25: a scope that updates the fire_at of a stored device and then fails
\* leaves the device, after rollback, with the fire_at it had at scope
\* entry and indexed in the bucket of that fire_at.
C25_RollbackDiscardsUpdate ==
    [][\A u \in UUIDS, f \in Seconds :
           (by_uuid[u] # NoObj /\ ScopeUpdate(u, f, TRUE)) =>
               /\ by_uuid'[u] # NoObj
               /\ heap'[u][by_uuid'[u]].fire_at = FireAt(u)
               /\ u \in BucketGet(by_fire_at', FireAt(u))
      ]_vars

\* The events pending on the objects of the seen set, device by device,
\* in the order collect_new_events visits them.
RECURSIVE SeenEvents(_)
SeenEvents(uuids) ==
    IF uuids = <<>> THEN <<>>
    ELSE heap[Head(uuids)][seen[Head(uuids)]].events \o SeenEvents(Tail(uuids))

\* C26: a call of collect_new_events yields the pending events of each
\* seen device in the order they were appended and removes them from the
\* device, so that a repeated call yields nothing old, and every event
\* generated on a device of the store is among the events yielded.
C26_EventsHarvestedOnce ==
    [][(CollectNewEvents /\ last'.exc = None) =>
           /\ last'.ret = SeenEvents(SetToSeq({u \in UUIDS : seen[u] # NoObj}))
           /\ \A u \in UUIDS :
                  seen'[u] # NoObj => heap'[u][seen'[u]].events = <<>>
           /\ \A u \in UUIDS :
                  by_uuid[u] # NoObj =>
                      \A i \in DOMAIN heap[u][by_uuid[u]].events :
                          \E j \in DOMAIN last'.ret :
                              last'.ret[j] = heap[u][by_uuid[u]].events[i]
      ]_vars

\* C27: when a scope of a unit of work ends, the seen set holds only
\* devices that scope touched: those in the store when it was entered,
\* which __enter__ fetches, and the one it updated.
C27_SeenIsScoped ==
    [][\A u \in UUIDS, f \in Seconds, fails \in BOOLEAN :
           ScopeUpdate(u, f, fails) =>
               \A v \in UUIDS :
                   seen'[v] # NoObj => (by_uuid[v] # NoObj \/ v = u)
      ]_vars

\* C28: after every tick of the poller, whether or not the firing of a
\* device of the batch failed, _last_poll is the `now` the tick read.
C28_CursorAdvances ==
    [][CheckAndFire => last_poll' = clock]_vars

\* C30: whatever sequence of add, update, remove, remove_all and
\* get_fire_at_between has run on the in-memory store, no key of the time
\* index has an empty set of uuids.
C30_NoEmptyBuckets ==
    \A ts \in DOMAIN by_fire_at : by_fire_at[ts] # {}

\* C30 witness: an update or a remove took the last uuid out of the bucket
\* of the device's old fire_at while other buckets remain; that bucket is
\* gone from the time index.
C30_Witness ==
    /\ last.op \in {"update", "remove"}
    /\ last.before # 0
    /\ last.before \notin DOMAIN by_fire_at
    /\ DOMAIN by_fire_at # {}

\* C31: whatever sequence of add (of a new or of a present uuid), update,
\* remove and remove_all has run on the in-memory store, every uuid listed
\* in bucket ts of the time index is in the identity index with a device
\* whose fire_at is ts, and no uuid is listed in two buckets.
C31_TimeIndexConsistent ==
    /\ \A ts \in DOMAIN by_fire_at :
           \A u \in by_fire_at[ts] : by_uuid[u] # NoObj /\ FireAt(u) = ts
    /\ \A ts1 \in DOMAIN by_fire_at, ts2 \in DOMAIN by_fire_at :
           ts1 # ts2 => by_fire_at[ts1] \cap by_fire_at[ts2] = {}

\* C32: the windows of successive ticks of the poller tile time: a tick
\* that follows another starts its window one second after the end of the
\* window of the tick before it, and the first tick one second after the
\* poller's construction.
C32_WindowsTileTime ==
    [][CheckAndFire =>
           /\ last'.window[1] =
                  IF last.op = "check_and_fire" THEN last.window[2] + 1
                  ELSE last'.window[1]
           /\ last.op = "init" => last'.window[1] = 1
           /\ last'.window[2] = clock
      ]_vars

\* C33: of two request threads that dispatch keep-alive commands
\* concurrently, each handles in its own dispatch the event its command
\* generated and only that one: the dispatch of the thread that runs step
\* by step hands its keep-alive event to the event handler before it
\* returns, and the dispatch of the other thread invokes its command
\* handler and the handler of its own event, nothing else.
C33_EventsHandledByOwnDispatch ==
    [][/\ (ReqReturn /\ request.exc = None) =>
              \E j \in DOMAIN last'.handled :
                  /\ last'.handled[j][1] = "keep_alive_device_event"
                  /\ last'.handled[j][2].uuid = request.uuid
       /\ \A u \in UUIDS :
              (OtherThreadKeepAlive(u) /\ last'.exc = None) =>
                  /\ Len(last'.handled) = 2
                  /\ last'.handled[2][2].type = "KeepAliveDeviceEvent"
                  /\ last'.handled[2][2].uuid = u
      ]_vars

\* C34: uow.devices read while no scope of the unit of work is open, before
\* its first scope or after a scope has exited, raises the initialization
\* error.
C34_NoAccessOutsideScope ==
    [][\A u \in UUIDS : ReadDevices(u) => last'.exc = "RuntimeError"]_vars

\* C35: update and remove for a uuid that is not in the identity index
\* return without raising and leave the identity index, the time index and
\* the seen set as they were.
C35_AbsentUuidNoOp ==
    [][\A u \in UUIDS :
           by_uuid[u] = NoObj =>
               /\ RepoRemove(u) =>
                      /\ last'.exc = None
                      /\ UNCHANGED <<by_uuid, by_fire_at, seen>>
               /\ \A ttl \in TTLS :
                      RepoUpdate(u, clock + ttl) =>
                          /\ last'.exc = None
                          /\ UNCHANGED <<by_uuid, by_fire_at, seen>>
      ]_vars

\* C35 witness: update or remove was called for a uuid the store had held
\* and no longer holds, while the store holds another device.
C35_Witness ==
    /\ last.op \in {"update", "remove"}
    /\ last.before = 0
    /\ by_uuid[last.uuid] = NoObj
    /\ seen[last.uuid] # NoObj
    /\ \E v \in UUIDS : by_uuid[v] # NoObj

=============================================================================
